---- MODULE Spec2Model ----
(***************************************************************************)
(* Model of the crew scripts of halitipek/ai-crew-sandbox.                 *)
(*                                                                         *)
(* src/orchestrator.py is modelled as a process per run: its module-level  *)
(* start-up (get_repo, fetch_project_ids), main() and move_issue_to_dev(). *)
(* Every remote call (GraphQL POST, PyGithub call, Slack POST) is one      *)
(* atomic step whose response is drawn from a small set of response        *)
(* shapes; the remote system of record (branch, files, pull requests,      *)
(* project items, card column, issue comments) is shared by all runs.      *)
(* Strings are TLA+ strings; non-ASCII letters of the messages are         *)
(* transliterated.                                                         *)
(***************************************************************************)
EXTENDS Integers, Sequences, FiniteSets, TLC

VARIABLES
    pc,               \* per run: position in the script
    viewer_nodes,     \* fetch_project_ids: the two listings (lines 77-78);
    repo_nodes,       \*   nodes (line 79) is viewer_nodes \o repo_nodes
    status_options,   \* fetch_project_ids: options received with the field (line 114)
    dev_option,       \* fetch_project_ids: the option picked at line 118
    project_id,       \* fetch_project_ids: locals returned at line 171
    status_field_id,
    dev_option_id,
    err,              \* message of the exception that ended start-up ("" if none)
    PROJECT_ID,       \* module globals assigned at line 176
    STATUS_FIELD_ID,
    DEV_OPTION_ID,
    pathIdx,          \* main: position of the loop over files_to_add
    pr,               \* main: the pull request in use (0 = None)
    item_id,          \* main: the id passed to move_issue_to_dev (line 352)
    content_id,       \* move_issue_to_dev: issue id found by the query (line 219)
    add_item,         \* move_issue_to_dev: outcome of the add call (line 224)
    confirmation,     \* move_issue_to_dev: the response taken as confirming the move
    moved,            \* move_issue_to_dev: what was printed about the card move
    sent,             \* per run: the GraphQL requests issued so far, in order
    ops,              \* per run: the kinds of REST and Slack operations attempted
    branch,           \* remote: does refs/heads/BRANCH exist
    files,            \* remote: content of each path of files_to_add on BRANCH
    pulls,            \* remote: numbers of the open pull requests BRANCH -> main
    items,            \* remote: project items, [project, content, id]
    card,             \* remote: item id -> option id of its Status field
    ensured,          \* the answers add calls got so far: <<project, content, item id>>
    script,           \* which of the four scripts the runs execute
    env,              \* environment: is GH_PAT, SLACK_WEBHOOK, OPENAI_API_KEY, PR_NUMBER set
    notes,            \* per run: the Slack posts attempted, [kind, delivered]
    writes,           \* per run: the repository writes a role script requested, in order
    head,             \* remote: content of each path on the pull request's branch
    reviews,          \* remote: pull request -> states of the reviews it has
    review_comments,  \* remote: pull request -> Chief Architect review comments on it
    pr_files,         \* process_pr: paths of pr.get_files()
    tasks,            \* core engineers process_pr: paths to fill (line 256)
    generated_files,  \* QA/perf process_pr: paths written (line 297)
    prs_to_review,    \* chief architect main: pull requests to review (lines 220, 224)
    idx,              \* position of the role script's current loop
    success           \* core engineers and QA/perf main: result of process_pr

fetchVars  == <<viewer_nodes, repo_nodes, status_options, dev_option, project_id, status_field_id,
               dev_option_id, err>>
globalVars == <<PROJECT_ID, STATUS_FIELD_ID, DEV_OPTION_ID>>
mainVars   == <<pathIdx, pr, item_id>>
moveVars   == <<content_id, add_item, confirmation, moved>>
repoVars   == <<branch, files, pulls>>
boardVars  == <<items, card, ensured>>
orchVars   == <<fetchVars, globalVars, mainVars, moveVars, sent, repoVars, boardVars>>
roleVars   == <<writes, head, reviews, review_comments, pr_files, tasks, generated_files, prs_to_review, idx, success>>
crewVars   == <<script, env, roleVars>>
vars == <<pc, fetchVars, globalVars, mainVars, moveVars, sent, ops, repoVars, boardVars,
          crewVars, notes>>

----------------------------------------------------------------------------
(* Bounds of the model *)

MaxRuns    == 2    \* successive orchestrator runs
MaxBoards  == 2    \* boards in the two listings (viewer, repository) together
MaxOptions == 2    \* options of the Status field
MaxFiles   == 2    \* files a pull request lists
MaxPulls   == 2    \* open pull requests the chief architect finds

Runs == 1..MaxRuns

----------------------------------------------------------------------------
(* Settings, lines 13-16 *)

REPO_FULL     == "halitipek/ai-crew-sandbox"
ISSUE_NUMBER  == 1
BRANCH        == "feature/mvp1_world_skeleton"
files_to_add  == <<"src/ecs/World.hpp", "src/ecs/World.cpp">>
PROJECT_FRAGMENT == "SimplyECS"
DEV_NAME      == "Dev"
GLOBAL_PREFIX == "PVTO_"

None == "None"

----------------------------------------------------------------------------
(* Python string operations *)

\* "frag in s"
Contains(s, frag) ==
    \E i \in 1..(Len(s) - Len(frag) + 1) : SubSeq(s, i, i + Len(frag) - 1) = frag

\* s.startswith(prefix)
StartsWith(s, prefix) ==
    Len(s) >= Len(prefix) /\ SubSeq(s, 1, Len(prefix)) = prefix

UpperLetters == "ABCDEFGHIJKLMNOPQRSTUVWXYZ"
LowerLetters == "abcdefghijklmnopqrstuvwxyz"

LowerChar(c) ==
    IF \E i \in 1..Len(UpperLetters) : SubSeq(UpperLetters, i, i) = c
    THEN LET i == CHOOSE j \in 1..Len(UpperLetters) : SubSeq(UpperLetters, j, j) = c
         IN  SubSeq(LowerLetters, i, i)
    ELSE c

\* s.lower()
RECURSIVE Lower(_)
Lower(s) ==
    IF Len(s) = 0 THEN ""
    ELSE LowerChar(SubSeq(s, 1, 1)) \o Lower(SubSeq(s, 2, Len(s)))

\* sep.join(parts)
RECURSIVE Join(_, _)
Join(parts, sep) ==
    IF Len(parts) = 0 THEN ""
    ELSE IF Len(parts) = 1 THEN parts[1]
    ELSE parts[1] \o sep \o Join(Tail(parts), sep)

\* next((x for x in seq if P(x)), None): index of the first match, 0 if none
FirstIndex(seq, P(_)) ==
    IF \E i \in 1..Len(seq) : P(seq[i])
    THEN CHOOSE i \in 1..Len(seq) : P(seq[i]) /\ \A j \in 1..(i - 1) : ~P(seq[j])
    ELSE 0

\* all sequences over S of length at most n
SeqsUpTo(S, n) == UNION { [1..k -> S] : k \in 0..n }

----------------------------------------------------------------------------
(* The GraphQL helper, lines 35-59 *)

\* What requests.post / resp.json() can produce for one call: the transport
\* outcome, whether the body has an "errors" key, and the body's "data".
FailedRaw(empty) ==
    { [transport |-> t, errors |-> FALSE, dataKind |-> "absent", data |-> empty] :
        t \in {"timeout", "http_error", "bad_json"} }
    \cup
    { [transport |-> "ok", errors |-> e, dataKind |-> k, data |-> empty] :
        e \in BOOLEAN, k \in {"absent", "null", "empty"} }

RawResponses(payloads, empty) ==
    FailedRaw(empty)
    \cup
    { [transport |-> "ok", errors |-> e, dataKind |-> "object", data |-> d] :
        e \in BOOLEAN, d \in payloads }

\* A mutant of gql: trusts the HTTP status alone.
gql_TrustsHttp(raw) ==
    [ok |-> raw.transport = "ok", data |-> raw.data]

\* gql(): ok = FALSE stands for the None it returns
gql(raw) ==
    IF raw.transport # "ok" THEN [ok |-> FALSE, data |-> raw.data]      \* lines 51-59
    ELSE IF raw.errors THEN [ok |-> FALSE, data |-> raw.data]           \* lines 43-45
    ELSE IF raw.dataKind # "object" THEN [ok |-> FALSE, data |-> raw.data] \* lines 46-49
    ELSE [ok |-> TRUE, data |-> raw.data]                               \* line 50

----------------------------------------------------------------------------
(* The boards, fields and options the GraphQL API can answer with *)

ProjectIds == {"PVT_1", "PVT_2", "PVT_3"}

TitleOf(p) ==
    CASE p = "PVT_1" -> "SimplyECS Kanban"
      [] p = "PVT_2" -> "Roadmap"
      [] p = "PVT_3" -> "Old SimplyECS"

Board(p)     == [kind |-> "board", id |-> p, title |-> TitleOf(p)]
NullNode     == [kind |-> "null", id |-> "", title |-> ""]
UntitledNode == [kind |-> "untitled", id |-> "PVT_2", title |-> ""]
NoNode       == [kind |-> "none", id |-> "", title |-> ""]

BoardNodes == { Board(p) : p \in ProjectIds } \cup {NullNode, UntitledNode}

ProjPayloads ==
    UNION { { [viewer |-> v, repository |-> w] :
                w \in SeqsUpTo(BoardNodes, MaxBoards - Len(v)) } :
            v \in SeqsUpTo(BoardNodes, MaxBoards) }
EmptyProjPayload == [viewer |-> <<>>, repository |-> <<>>]

Suffix(p) == SubSeq(p, 5, Len(p))
FieldIdOf(p) == "PVTSSF_" \o Suffix(p)

Digit(k) == SubSeq("0123456789", k + 1, k + 1)
\* the id of option number k of project p's Status field, in either encoding
OptionId(p, k, enc) ==
    IF enc = "global" THEN GLOBAL_PREFIX \o Suffix(p) \o "_" \o Digit(k)
    ELSE "0f" \o Suffix(p) \o "e" \o Digit(k)

Encodings == {"local", "global"}
OptionNames == {"Todo", "Dev", "dev", "DEV"}

MkOptions(p, names, enc) ==
    [k \in 1..Len(names) |-> [name |-> names[k], id |-> OptionId(p, k, enc)]]

NoOption == [name |-> "", id |-> None]

FieldPayloads(p) ==
    { [shape |-> s, id |-> FieldIdOf(p), options |-> <<>>] :
        s \in {"node_null", "no_field", "no_id"} }
    \cup
    { [shape |-> "field", id |-> FieldIdOf(p), options |-> MkOptions(p, names, enc)] :
        names \in SeqsUpTo(OptionNames, MaxOptions), enc \in Encodings }
EmptyFieldPayload == [shape |-> "no_field", id |-> "", options |-> <<>>]

\* every option id there is, with the project and the option it denotes
OptionTable ==
    { [id |-> OptionId(p, k, enc), project |-> p, number |-> k] :
        p \in ProjectIds, k \in 1..(MaxOptions + 1), enc \in Encodings }

\* the project an option id belongs to (None if it is no option id)
OptionOwner(id) ==
    IF \E o \in OptionTable : o.id = id
    THEN (CHOOSE o \in OptionTable : o.id = id).project
    ELSE None

\* the number of the option an id denotes within its field (0 if none)
OptionNumber(id) ==
    IF \E o \in OptionTable : o.id = id
    THEN (CHOOSE o \in OptionTable : o.id = id).number
    ELSE 0

----------------------------------------------------------------------------
(* fetch_project_ids, lines 62-171, as functions of the responses *)

ErrProjQuery   == "Proje ID'si sorgusu basarisiz."
ErrNoProjects  == "'" \o REPO_FULL \o "' icin hic GitHub Projesi bulunamadi."
ErrNoMatch     == "'SimplyECS' iceren bir proje bulunamadi."
ErrFieldQuery  == "Status alani sorgusu basarisiz."
ErrNoField     == "Status field ID'si alinirken yapi hatasi: \"'Status' alani ('field') yanitta bulunamadi.\""
ErrNoFieldId   == "Status alani icin 'id' degeri bulunamadi."
ErrNoDevPrefix == "'Dev' secenegi bulunamadi. Mevcut secenekler: "
ErrNodeNull    == "AttributeError - 'NoneType' object has no attribute 'get'"

\* line 81: n and "SimplyECS" in n.get("title", ""), tabulated over the nodes
TitleMatches ==
    [n \in BoardNodes |-> n.kind # "null" /\ Contains(n.title, PROJECT_FRAGMENT)]
NodeMatches(n) == TitleMatches[n]

\* A mutant of SelectProject: takes the last matching board.
SelectProject_Last(viewer, repository) ==
    LET ns == viewer \o repository
        hit == { i \in 1..Len(ns) : NodeMatches(ns[i]) }
    IN  IF hit = {} THEN NoNode
        ELSE ns[CHOOSE i \in hit : \A j \in hit : j <= i]

\* lines 77-81: the first board, viewer's then the repository's, that matches
SelectProject(viewer, repository) ==
    LET ns == viewer \o repository
        i  == FirstIndex(ns, NodeMatches)
    IN  IF i = 0 THEN NoNode ELSE ns[i]

\* lines 74-83
ResolveProject(resp) ==
    LET ns   == resp.data.viewer \o resp.data.repository
        proj == SelectProject(resp.data.viewer, resp.data.repository)
        out(e, id) == [err |-> e, viewer_nodes |-> resp.data.viewer,
                       repo_nodes |-> resp.data.repository, project_id |-> id]
    IN  IF ~resp.ok THEN out(ErrProjQuery, None)                        \* line 75
        ELSE IF ns = <<>> THEN out(ErrNoProjects, None)                 \* line 80
        ELSE IF proj = NoNode THEN out(ErrNoMatch, None)                \* line 82
        ELSE out("", proj.id)                                           \* line 83

\* line 118: opt["name"].lower() == "dev", lower() tabulated over the names
LowerName == [n \in OptionNames |-> Lower(n)]
IsDev(opt) == LowerName[opt.name] = "dev"

\* A mutant of SelectDevOption: compares the name without lower().
SelectDevOption_CaseSensitive(options) ==
    LET i == FirstIndex(options, LAMBDA o : o.name = DEV_NAME)
    IN  IF i = 0 THEN NoOption ELSE options[i]

\* line 118: the first option named "Dev", whatever its case
SelectDevOption(options) ==
    LET i == FirstIndex(options, IsDev)
    IN  IF i = 0 THEN NoOption ELSE options[i]

OptionNamesOf(options) == [k \in 1..Len(options) |-> options[k].name]

\* lines 119-120
ErrNoDev(options) == ErrNoDevPrefix \o Join(OptionNamesOf(options), ", ")

\* lines 104-125
ResolveField(resp) ==
    LET sf  == resp.data
        dev == SelectDevOption(sf.options)
        bad(e) == [err |-> e, status_field_id |-> None, options |-> <<>>, dev_option |-> NoOption]
    IN  IF ~resp.ok THEN bad(ErrFieldQuery)
        ELSE IF sf.shape = "node_null" THEN bad(ErrNodeNull)
        ELSE IF sf.shape = "no_field" THEN bad(ErrNoField)
        ELSE IF sf.shape = "no_id" THEN bad(ErrNoFieldId)
        ELSE IF dev = NoOption
             THEN [err |-> ErrNoDev(sf.options), status_field_id |-> sf.id,
                   options |-> sf.options, dev_option |-> NoOption]
        ELSE [err |-> "", status_field_id |-> sf.id, options |-> sf.options,
              dev_option |-> dev]

\* The answers to the secondary query options(names:["Dev"]) (lines 135-150) for a
\* field whose options are `options`: the options of that name, the API matching
\* names whatever their case, with ids in either encoding; the id of the first may
\* be missing, the list may come back empty, and node or field may be null.
OptionIdPayloads(p, options) ==
    LET hit == { k \in 1..Len(options) : IsDev(options[k]) }
        ks  == [i \in 1..Cardinality(hit) |->
                   CHOOSE k \in hit : Cardinality({ j \in hit : j < k }) = i - 1]
        ids(enc) == [i \in 1..Len(ks) |-> OptionId(p, ks[i], enc)]
    IN  { [shape |-> s, options |-> <<>>] : s \in {"node_null", "ok"} }
        \cup { [shape |-> "ok", options |-> ids(enc)] : enc \in Encodings }
        \cup { [shape |-> "ok", options |-> [ids(enc) EXCEPT ![1] = None]] :
                 enc \in { e \in Encodings : hit # {} } }
EmptyOptionIdPayload == [shape |-> "ok", options |-> <<>>]

\* what lines 74-83 can come to, over every response to the query
ProjOutcomes ==
    { ResolveProject(gql(raw)) : raw \in RawResponses(ProjPayloads, EmptyProjPayload) }

\* what lines 104-125 can come to for project p, over every response to the query
FieldOutcomes ==
    [p \in ProjectIds |->
        { ResolveField(gql(raw)) : raw \in RawResponses(FieldPayloads(p), EmptyFieldPayload) }]

\* lines 151-167: the id the secondary query's answer turns dev_option_id into
NormalizeOptionId(id, resp) ==
    IF ~resp.ok THEN id                                   \* line 152
    ELSE IF resp.data.shape = "node_null" THEN id         \* lines 165-167
    ELSE IF Len(resp.data.options) = 0 THEN id            \* line 158
    ELSE IF resp.data.options[1] = None THEN id           \* line 160
    ELSE resp.data.options[1]                             \* line 162

----------------------------------------------------------------------------
(* The four scripts and their environment *)

Scripts == {"orchestrator", "chief_architect", "core_engineers", "qa_perf"}

\* os.environ.get(...) of the four variables: set (TRUE) or missing (FALSE)
EnvVars == {"GH_PAT", "SLACK_WEBHOOK", "OPENAI_API_KEY", "PR_NUMBER"}

\* the variables a script reads
Reads(s) ==
    IF s = "orchestrator" THEN {"GH_PAT", "SLACK_WEBHOOK"} ELSE EnvVars

\* the environments of a script; a variable it never reads is left set
Envs(s) == { e \in [EnvVars -> BOOLEAN] : \A v \in EnvVars \ Reads(s) : e[v] }

\* the message a script prints when the variable v is not set
ErrNotSet(v) == "Hata: " \o v \o " ortam degiskeni ayarlanmamis."

\* the start-up validation of each script: the message it exits with, "" if it
\* goes on
ConfigError(s, e) ==
    CASE s = "orchestrator" ->
             IF ~e["GH_PAT"] THEN ErrNotSet("GH_PAT")  \* orchestrator.py 21-23
             ELSE IF ~e["SLACK_WEBHOOK"] THEN ErrNotSet("SLACK_WEBHOOK")  \* orchestrator.py 24-26
             ELSE ""
      [] s = "chief_architect" ->
             IF ~e["GH_PAT"] THEN ErrNotSet("GH_PAT")  \* chief_architect.py 46-48
             ELSE ""
      [] OTHER ->
             IF ~e["GH_PAT"] THEN ErrNotSet("GH_PAT")  \* core_engineers.py 43-45
             ELSE IF ~e["OPENAI_API_KEY"] THEN ErrNotSet("OPENAI_API_KEY")  \* core_engineers.py 46-48
             ELSE IF ~e["SLACK_WEBHOOK"] THEN ErrNotSet("SLACK_WEBHOOK")  \* core_engineers.py 49-51
             ELSE IF ~e["PR_NUMBER"] THEN ErrNotSet("PR_NUMBER")  \* core_engineers.py 52-54
             ELSE ""

\* where a script goes once it is configured and holds the repository
EntryLabel(s) ==
    CASE s = "orchestrator"    -> "q_proj"      \* orchestrator.py 174-176
      [] s = "chief_architect" -> "ca_main"     \* chief_architect.py 257-259
      [] s = "core_engineers"  -> "ce_get_pr"   \* core_engineers.py 347-349, 333, 225
      [] OTHER                 -> "qa_get_pr"   \* qa_perf.py 429-431, 415, 255

\* a Slack post as recorded in `notes`
Note(kind, delivered) == [kind |-> kind, delivered |-> delivered]

\* paths a pull request may list, in pr.get_files() order
PrPaths == <<"src/ecs/World.hpp", "tests/WorldTests.cpp", "src/ecs/World.cpp">>

\* the benchmark QA/perf writes (qa_perf.py 346)
BenchmarkPath == "src/benchmark/ClassBenchmark.cpp"

\* file contents: empty as the orchestrator created it, whitespace, code
Contents == {"", " ", "class World {};"}
Absent == None

\* what the model API hands back as text
Generated == "// generated"

\* the paths of the pull request's branch a role script may read or write
BranchPaths == {PrPaths[i] : i \in 1..MaxFiles} \cup {"tests/WorldTests.cpp", BenchmarkPath}

\* the branch of the pull request before a role script runs; a listed file may
\* be gone from the branch (status "removed"); only QA/perf's earlier runs wrote
\* a benchmark; a script that never reads the branch has none of it in view
Heads(s) ==
    CASE s = "core_engineers" ->
             { h \in [BranchPaths -> Contents \cup {Absent}] : h[BenchmarkPath] = Absent }
      [] s = "qa_perf" ->
             { h \in [BranchPaths -> {"", Generated, Absent}] : h[BenchmarkPath] # "" }
      [] OTHER -> { [q \in {} |-> Absent] }

\* the open pull requests, by number, in repo.get_pulls(state="open") order
OpenPulls == 1..MaxPulls

\* the reviews an open pull request has before the chief architect runs
ReviewsBefore == {{}, {"APPROVED"}, {"CHANGES_REQUESTED"}}

\* the role scripts' state before a run
RoleInit ==
    /\ writes = [r \in Runs |-> <<>>]
    /\ reviews \in IF script = "chief_architect" /\ ConfigError(script, env) = ""
                   THEN [OpenPulls -> ReviewsBefore]
                   ELSE {[n \in OpenPulls |-> {}]}
    /\ review_comments = [n \in OpenPulls |-> 0]
    /\ head \in Heads(IF ConfigError(script, env) = "" THEN script ELSE "none")
    /\ pr_files = <<>>
    /\ tasks = <<>>
    /\ generated_files = <<>>
    /\ prs_to_review = <<>>
    /\ idx = 0
    /\ success = None

----------------------------------------------------------------------------
(* State after construction: no run has started, the repository has no     *)
(* feature branch yet or is as an earlier run left it.                     *)

Paths == 1..Len(files_to_add)
IssueNodeId == "I_1"

MovePayloads(item) ==
    { [shape |-> sh, id |-> item] : sh \in {"no_key", "null_key", "no_item", "item"} }
EmptyMovePayload == [shape |-> "no_key", id |-> None]
NoRaw == [transport |-> "none", errors |-> FALSE, dataKind |-> "absent",
          data |-> EmptyMovePayload]

\* a request as recorded in `sent`
Req(op) == [op |-> op, proj |-> None, item |-> None, field |-> None,
            opt |-> None, content |-> None]

Init ==
    /\ pc = [r \in Runs |-> "idle"]
    /\ viewer_nodes = [r \in Runs |-> <<>>]
    /\ repo_nodes = [r \in Runs |-> <<>>]
    /\ status_options = [r \in Runs |-> <<>>]
    /\ dev_option = [r \in Runs |-> NoOption]
    /\ project_id = [r \in Runs |-> None]
    /\ status_field_id = [r \in Runs |-> None]
    /\ dev_option_id = [r \in Runs |-> None]
    /\ err = [r \in Runs |-> ""]
    /\ PROJECT_ID = [r \in Runs |-> None]
    /\ STATUS_FIELD_ID = [r \in Runs |-> None]
    /\ DEV_OPTION_ID = [r \in Runs |-> None]
    /\ pathIdx = [r \in Runs |-> 0]
    /\ pr = [r \in Runs |-> 0]
    /\ item_id = [r \in Runs |-> None]
    /\ content_id = [r \in Runs |-> None]
    /\ add_item = [r \in Runs |-> "not_called"]
    /\ confirmation = [r \in Runs |-> NoRaw]
    /\ moved = [r \in Runs |-> "not_called"]
    /\ sent = [r \in Runs |-> <<>>]
    /\ ops = [r \in Runs |-> {}]
    /\ branch = FALSE
    /\ files = [i \in Paths |-> "absent"]
    /\ pulls = {}
    /\ items = {}
    /\ card = [i \in {} |-> None]
    /\ ensured = <<>>
    /\ script \in Scripts
    /\ env \in Envs(script)
    /\ notes = [r \in Runs |-> <<>>]
    /\ RoleInit

\* runs are successive: a run starts when the runs before it have ended; a
\* core-engineers or QA/perf run starts from an arbitrary branch, which covers
\* what an earlier run left, so one run of them is followed
MayStart(r) ==
    /\ \A q \in Runs : q < r => pc[q] = "done"
    /\ script \in {"core_engineers", "qa_perf"} => r = 1

Log(r, req) == sent' = [sent EXCEPT ![r] = Append(@, req)] /\ UNCHANGED ops
Op(r, kind) == ops' = [ops EXCEPT ![r] = @ \cup {kind}] /\ UNCHANGED sent
Goto(r, label) == pc' = [pc EXCEPT ![r] = label]

----------------------------------------------------------------------------
(* Module-level start-up, lines 18-32 and 174-184 *)

\* lines 31-32: gh.get_repo(REPO_FULL); an exception here is uncaught
Start(r) ==
    /\ pc[r] = "idle"
    /\ MayStart(r)
    /\ IF ConfigError(script, env) # ""
       THEN /\ Goto(r, "exit1")                              \* lines 21-26
            /\ err' = [err EXCEPT ![r] = ConfigError(script, env)]
            /\ UNCHANGED <<sent, ops>>
       ELSE /\ \E outcome \in {"ok", "error"} :
                 /\ Goto(r, IF outcome = "ok" THEN EntryLabel(script) ELSE "exit1")
                 /\ err' = [err EXCEPT ![r] =
                               IF outcome = "ok" THEN "" ELSE "GithubException"]
            /\ Op(r, "repo")
    /\ UNCHANGED <<crewVars, notes, viewer_nodes, repo_nodes, status_options, dev_option, project_id,
                   status_field_id, dev_option_id, globalVars, mainVars, moveVars,
                   repoVars, boardVars>>

\* A mutant of OnFetchError: the failure is printed and the script goes on.
OnFetchError_GoesOn(e, next) == next

\* lines 175-184: an exception of fetch_project_ids ends the script with exit(1)
OnFetchError(e, next) == IF e = "" THEN next ELSE "exit1"

\* lines 74-83, and lines 177-179 when it raises
QueryProjects(r) ==
    /\ pc[r] = "q_proj"
    /\ \E res \in ProjOutcomes :
             /\ viewer_nodes' = [viewer_nodes EXCEPT ![r] = res.viewer_nodes]
             /\ repo_nodes' = [repo_nodes EXCEPT ![r] = res.repo_nodes]
             /\ project_id' = [project_id EXCEPT ![r] = res.project_id]
             /\ err' = [err EXCEPT ![r] = res.err]
             /\ Goto(r, OnFetchError(res.err, "using"))
    /\ Log(r, Req("query_projects"))
    /\ UNCHANGED <<crewVars, notes, status_options, dev_option, status_field_id, dev_option_id,
                   globalVars, mainVars, moveVars, repoVars, boardVars>>

\* line 84: print("Using project:", ...); the listings are not read after it
UsingProject(r) ==
    /\ pc[r] = "using"
    /\ viewer_nodes' = [viewer_nodes EXCEPT ![r] = <<>>]
    /\ repo_nodes' = [repo_nodes EXCEPT ![r] = <<>>]
    /\ Goto(r, "q_field")
    /\ UNCHANGED <<crewVars, notes, status_options, dev_option, project_id, status_field_id, dev_option_id,
                   err, globalVars, mainVars, moveVars, sent, ops, repoVars, boardVars>>

\* line 176: the globals are assigned when fetch_project_ids returns
Resolved(r, fid, oid) ==
    /\ PROJECT_ID' = [PROJECT_ID EXCEPT ![r] = project_id[r]]
    /\ STATUS_FIELD_ID' = [STATUS_FIELD_ID EXCEPT ![r] = fid]
    /\ DEV_OPTION_ID' = [DEV_OPTION_ID EXCEPT ![r] = oid]

\* lines 104-133, and lines 164-176 when the id needs no secondary query
QueryField(r) ==
    /\ pc[r] = "q_field"
    /\ \E res \in FieldOutcomes[project_id[r]] :
             /\ status_options' = [status_options EXCEPT ![r] = res.options]
             /\ status_field_id' = [status_field_id EXCEPT ![r] = res.status_field_id]
             /\ dev_option' = [dev_option EXCEPT ![r] = res.dev_option]
             /\ dev_option_id' = [dev_option_id EXCEPT ![r] = res.dev_option.id]
             /\ err' = [err EXCEPT ![r] = res.err]
             /\ IF res.err = "" /\ StartsWith(res.dev_option.id, GLOBAL_PREFIX)
                THEN Goto(r, "main") /\ Resolved(r, res.status_field_id, res.dev_option.id)
                ELSE Goto(r, OnFetchError(res.err, "q_option")) /\ UNCHANGED globalVars
    /\ Log(r, Req("query_field"))
    /\ UNCHANGED <<crewVars, notes, viewer_nodes, repo_nodes, project_id, mainVars, moveVars, repoVars,
                   boardVars>>

\* lines 133-176: the secondary query and the return of fetch_project_ids
QueryOptionId(r) ==
    /\ pc[r] = "q_option"
    /\ \E raw \in RawResponses(OptionIdPayloads(project_id[r], status_options[r]),
                               EmptyOptionIdPayload) :
         LET id == NormalizeOptionId(dev_option_id[r], gql(raw))
         IN  /\ dev_option_id' = [dev_option_id EXCEPT ![r] = id]
             /\ Resolved(r, status_field_id[r], id)
    /\ Goto(r, "main")
    /\ Log(r, Req("query_option_id"))
    /\ UNCHANGED <<crewVars, notes, viewer_nodes, repo_nodes, status_options, dev_option, project_id,
                   status_field_id, err, mainVars, moveVars, repoVars, boardVars>>

\* exit(1) at lines 179 and 184, or the end of the script: the process and its
\* variables are gone
Exit(r) ==
    /\ pc[r] \in {"exit1", "returned"}
    /\ Goto(r, "done")
    /\ viewer_nodes' = [viewer_nodes EXCEPT ![r] = <<>>]
    /\ repo_nodes' = [repo_nodes EXCEPT ![r] = <<>>]
    /\ status_options' = [status_options EXCEPT ![r] = <<>>]
    /\ dev_option' = [dev_option EXCEPT ![r] = NoOption]
    /\ project_id' = [project_id EXCEPT ![r] = None]
    /\ status_field_id' = [status_field_id EXCEPT ![r] = None]
    /\ dev_option_id' = [dev_option_id EXCEPT ![r] = None]
    /\ err' = [err EXCEPT ![r] = ""]
    /\ PROJECT_ID' = [PROJECT_ID EXCEPT ![r] = None]
    /\ STATUS_FIELD_ID' = [STATUS_FIELD_ID EXCEPT ![r] = None]
    /\ DEV_OPTION_ID' = [DEV_OPTION_ID EXCEPT ![r] = None]
    /\ pathIdx' = [pathIdx EXCEPT ![r] = 0]
    /\ pr' = [pr EXCEPT ![r] = 0]
    /\ item_id' = [item_id EXCEPT ![r] = None]
    /\ content_id' = [content_id EXCEPT ![r] = None]
    /\ add_item' = [add_item EXCEPT ![r] = "not_called"]
    /\ confirmation' = [confirmation EXCEPT ![r] = NoRaw]
    /\ moved' = [moved EXCEPT ![r] = "not_called"]
    /\ sent' = [sent EXCEPT ![r] = <<>>]
    /\ ops' = [ops EXCEPT ![r] = {}]
    /\ notes' = [notes EXCEPT ![r] = <<>>]
    /\ writes' = [writes EXCEPT ![r] = <<>>]
    /\ pr_files' = <<>>
    /\ tasks' = <<>>
    /\ generated_files' = <<>>
    /\ prs_to_review' = <<>>
    /\ idx' = 0
    /\ success' = None
    /\ UNCHANGED <<script, env, head, reviews, review_comments, repoVars, boardVars>>

----------------------------------------------------------------------------
(* main(), lines 284-346: branch, files, pull request *)

\* lines 287-301: get_branch("main") and create_git_ref; the locals of
\* fetch_project_ids went when it returned
CreateBranch(r) ==
    /\ pc[r] = "main"
    /\ viewer_nodes' = [viewer_nodes EXCEPT ![r] = <<>>]
    /\ repo_nodes' = [repo_nodes EXCEPT ![r] = <<>>]
    /\ status_options' = [status_options EXCEPT ![r] = <<>>]
    /\ dev_option' = [dev_option EXCEPT ![r] = NoOption]
    /\ project_id' = [project_id EXCEPT ![r] = None]
    /\ status_field_id' = [status_field_id EXCEPT ![r] = None]
    /\ dev_option_id' = [dev_option_id EXCEPT ![r] = None]
    /\ \E outcome \in {"ok", "error"} :
         IF outcome = "error"
         THEN Goto(r, "returned") /\ UNCHANGED <<branch, pathIdx>>      \* lines 296-301
         ELSE /\ branch' = TRUE                    \* created, or 422 "Reference already exists"
              /\ pathIdx' = [pathIdx EXCEPT ![r] = 1]
              /\ Goto(r, "check_file")
    /\ Op(r, "branch")
    /\ UNCHANGED <<crewVars, notes, err, globalVars, pr, item_id, moveVars, files, pulls, boardVars>>

\* line 307: the next path of the loop, or the pull-request step after the last
NextPath(r) ==
    IF pathIdx[r] < Len(files_to_add)
    THEN pathIdx' = [pathIdx EXCEPT ![r] = @ + 1] /\ Goto(r, "check_file")
    ELSE pathIdx' = [pathIdx EXCEPT ![r] = 0] /\ Goto(r, "get_pulls")

\* A mutant of CheckFile: the file is created without looking for it first.
CheckFile_AlwaysCreates(r) ==
    /\ pc[r] = "check_file"
    /\ Goto(r, "create_file")
    /\ Op(r, "file")
    /\ UNCHANGED <<crewVars, notes, fetchVars, globalVars, mainVars, moveVars, repoVars, boardVars>>

\* lines 308-311, 321-324: repo.get_contents(path, ref=BRANCH)
CheckFile(r) ==
    /\ pc[r] = "check_file"
    /\ \E outcome \in {"answer", "error"} :
         IF outcome = "answer" /\ files[pathIdx[r]] = "absent"
         THEN Goto(r, "create_file") /\ UNCHANGED pathIdx                \* 404, line 311
         ELSE NextPath(r)                          \* the file exists, or lines 322-324
    /\ Op(r, "file")
    /\ UNCHANGED <<crewVars, notes, fetchVars, globalVars, pr, item_id, moveVars, repoVars, boardVars>>

\* lines 312-320: repo.create_file(path, message, "", branch=BRANCH)
CreateFile(r) ==
    /\ pc[r] = "create_file"
    /\ \E outcome \in {"ok", "error"} :
         IF outcome = "ok" /\ files[pathIdx[r]] = "absent"
         THEN files' = [files EXCEPT ![pathIdx[r]] = "empty"]
         ELSE UNCHANGED files                      \* 422 when it exists by now, or an error
    /\ NextPath(r)
    /\ Op(r, "file")
    /\ UNCHANGED <<crewVars, notes, fetchVars, globalVars, pr, item_id, moveVars, branch, pulls, boardVars>>

\* pulls[0]
FirstPull(ps) == CHOOSE n \in ps : \A m \in ps : m <= n

\* A mutant of GetPulls: without the guard of lines 344-346, main goes on to the
\* issue step when no pull request is at hand.
GetPulls_GoesOn(r) ==
    /\ pc[r] = "get_pulls"
    /\ \E outcome \in {"ok", "error"} :
         IF outcome = "ok" /\ pulls # {}
         THEN pr' = [pr EXCEPT ![r] = FirstPull(pulls)] /\ Goto(r, "get_issue")
         ELSE Goto(r, "get_issue") /\ UNCHANGED pr
    /\ Op(r, "pull")
    /\ UNCHANGED <<crewVars, notes, fetchVars, globalVars, pathIdx, item_id, moveVars, repoVars, boardVars>>

\* lines 328-333, 339-346: repo.get_pulls(state="open", head=..., base="main")
GetPulls(r) ==
    /\ pc[r] = "get_pulls"
    /\ \E outcome \in {"ok", "error"} :
         IF outcome = "error"
         THEN Goto(r, "returned") /\ UNCHANGED pr                        \* lines 339-346
         ELSE IF pulls # {}
         THEN pr' = [pr EXCEPT ![r] = FirstPull(pulls)] /\ Goto(r, "get_issue")
         ELSE Goto(r, "create_pull") /\ UNCHANGED pr
    /\ Op(r, "pull")
    /\ UNCHANGED <<crewVars, notes, fetchVars, globalVars, pathIdx, item_id, moveVars, repoVars, boardVars>>

\* lines 334-346: repo.create_pull(...); the host refuses a second open pull
\* request for the same head and base
CreatePull(r) ==
    /\ pc[r] = "create_pull"
    /\ \E outcome \in {"ok", "error"} :
         IF outcome = "ok" /\ pulls = {}
         THEN /\ pulls' = {1}
              /\ pr' = [pr EXCEPT ![r] = 1]
              /\ Goto(r, "get_issue")
         ELSE Goto(r, "returned") /\ UNCHANGED <<pulls, pr>>           \* lines 339-346
    /\ Op(r, "pull")
    /\ UNCHANGED <<crewVars, notes, fetchVars, globalVars, pathIdx, item_id, moveVars, branch, files,
                   boardVars>>

\* lines 349-355, 365-368: repo.get_issue(ISSUE_NUMBER) and its node_id
GetIssue(r) ==
    /\ pc[r] = "get_issue"
    /\ \E outcome \in {"ok", "no_node_id", "error"} :
         CASE outcome = "ok" ->
                item_id' = [item_id EXCEPT ![r] = IssueNodeId] /\ Goto(r, "q_issue")
           [] outcome = "no_node_id" ->
                UNCHANGED item_id /\ Goto(r, "comment")                  \* line 354
           [] outcome = "error" ->
                UNCHANGED item_id /\ Goto(r, "slack")                    \* lines 365-368
    /\ Op(r, "issue")
    /\ UNCHANGED <<crewVars, notes, fetchVars, globalVars, pathIdx, pr, moveVars, repoVars, boardVars>>

----------------------------------------------------------------------------
(* move_issue_to_dev(item_id), lines 188-280 *)

IssuePayloads == { [shape |-> sh, id |-> IssueNodeId] : sh \in {"issue", "no_id", "issue_null"} }
EmptyIssuePayload == [shape |-> "no_id", id |-> None]

\* lines 217-221, and line 359 when the chained .get() meets a null
QueryIssueId(r) ==
    /\ pc[r] = "q_issue"
    /\ \E raw \in RawResponses(IssuePayloads, EmptyIssuePayload) :
         LET resp == gql(raw)
         IN  IF resp.ok /\ resp.data.shape = "issue_null"
             THEN /\ moved' = [moved EXCEPT ![r] = "raised"]
                  /\ Goto(r, "comment")
                  /\ UNCHANGED content_id
             ELSE IF resp.ok /\ resp.data.shape = "issue"
             THEN /\ content_id' = [content_id EXCEPT ![r] = resp.data.id]
                  /\ Goto(r, "add_item")
                  /\ UNCHANGED moved
             ELSE Goto(r, "move") /\ UNCHANGED <<content_id, moved>>
    /\ Log(r, Req("query_issue_id"))
    /\ UNCHANGED <<crewVars, notes, fetchVars, globalVars, mainVars, add_item, confirmation, repoVars, boardVars>>

\* A mutant of AddItemVars: adds the pull request instead of the issue.
AddItemVars_Pull(r) ==
    [Req("add_item") EXCEPT !.proj = PROJECT_ID[r], !.content = Digit(pr[r])]

\* line 224: the variables of the addProjectV2ItemById request
AddItemVars(r) ==
    [Req("add_item") EXCEPT !.proj = PROJECT_ID[r], !.content = content_id[r]]

\* the project's item for a content, as a set (empty if it has none)
ItemsOf(p, c) == { it \in items : it.project = p /\ it.content = c }

\* A mutant of AddedItemId: the host adds a new item at every request.
AddedItemId_Fresh(p, c) == "PVTI_" \o Digit(Cardinality(items) + 1)

\* addProjectV2ItemById on the host: adding a content that is on the project
\* already is a no-op that answers with the item it has
AddedItemId(p, c) ==
    IF ItemsOf(p, c) # {} THEN (CHOOSE it \in ItemsOf(p, c) : TRUE).id
    ELSE "PVTI_" \o Digit(Cardinality(items) + 1)

AddPayloads(p, c) == { [shape |-> sh, id |-> AddedItemId(p, c)] : sh \in {"item", "no_item_id"} }
EmptyAddPayload == [shape |-> "no_item_id", id |-> None]

\* did the host execute the operation of this response (whether or not the
\* response then reached the caller intact)
Executed(raw) == raw.dataKind = "object" /\ ~raw.errors

\* lines 224-226
AddItem(r) ==
    /\ pc[r] = "add_item"
    /\ LET req == AddItemVars(r)
       IN  /\ \E raw \in RawResponses(AddPayloads(req.proj, req.content), EmptyAddPayload) :
                LET resp == gql(raw)
                IN  /\ items' = IF Executed(raw)
                                THEN items \cup {[project |-> req.proj, content |-> req.content,
                                                  id |-> raw.data.id]}
                                ELSE items
                    /\ add_item' = [add_item EXCEPT ![r] =
                                       IF ~resp.ok THEN "failed"
                                       ELSE IF resp.data.shape = "item" THEN resp.data.id
                                       ELSE "no_item_id"]
                    /\ ensured' = IF resp.ok /\ resp.data.shape = "item"
                                  THEN Append(ensured, <<req.proj, req.content, resp.data.id>>)
                                  ELSE ensured
           /\ Log(r, req)
    /\ Goto(r, "move")
    /\ UNCHANGED <<crewVars, notes, fetchVars, globalVars, mainVars, content_id, confirmation, moved,
                   repoVars, card>>

\* A mutant of MoveVars: re-derives the project instead of using PROJECT_ID.
MoveVars_OtherProject(r, op) ==
    [Req(op) EXCEPT !.proj = "PVT_2", !.item = item_id[r],
                    !.field = STATUS_FIELD_ID[r], !.opt = DEV_OPTION_ID[r]]

\* lines 245-246 and 271-272: the variables of the status mutation
MoveVars(r, op) ==
    [Req(op) EXCEPT !.proj = PROJECT_ID[r], !.item = item_id[r],
                    !.field = STATUS_FIELD_ID[r], !.opt = DEV_OPTION_ID[r]]

\* lines 248 and 274: the response holds data.updateProjectV2ItemFieldValue.projectV2Item
Confirmed(resp) == resp.ok /\ resp.data.shape = "item"

\* .get("updateProjectV2ItemFieldValue", {}) returned None: AttributeError
Raises(resp) == resp.ok /\ resp.data.shape = "null_key"

\* A mutant of AfterMove: the alternative mutation follows whatever came back.
AfterMove_AlwaysRetry(resp) == "alt_move"

\* A mutant of AfterMove: a card move that is not confirmed ends main.
AfterMove_Aborts(resp) == IF Confirmed(resp) THEN "comment" ELSE "returned"

\* lines 248-254 and 356-359: where the primary mutation's response leads
AfterMove(resp) ==
    IF Confirmed(resp) THEN "comment"          \* line 250
    ELSE IF Raises(resp) THEN "comment"        \* line 359
    ELSE "alt_move"                            \* line 251

\* updateProjectV2ItemFieldValue on the host: the column of the card changes when
\* the request names an item of the project and the host executed it
CardAfter(req, raw) ==
    IF Executed(raw) /\ raw.data.shape = "item"
       /\ \E it \in items : it.project = req.proj /\ it.id = req.item
    THEN [i \in DOMAIN card \cup {req.item} |-> IF i = req.item THEN req.opt ELSE card[i]]
    ELSE card

\* lines 244-252, and line 359 when the chained .get() meets a null
MoveCard(r) ==
    /\ pc[r] = "move"
    /\ LET req == MoveVars(r, "set_status")
       IN  /\ \E raw \in RawResponses(MovePayloads(req.item), EmptyMovePayload) :
                LET resp == gql(raw)
                IN  /\ confirmation' = [confirmation EXCEPT ![r] =
                                           IF Confirmed(resp) THEN raw ELSE NoRaw]
                    /\ card' = CardAfter(req, raw)
                    /\ moved' = [moved EXCEPT ![r] =
                                    IF Confirmed(resp) THEN "primary"
                                    ELSE IF Raises(resp) THEN "raised"
                                    ELSE @]
                    /\ Goto(r, AfterMove(resp))
           /\ Log(r, req)
    /\ UNCHANGED <<crewVars, notes, fetchVars, globalVars, mainVars, content_id, add_item, repoVars,
                   items, ensured>>

\* lines 254-280: the alternative mutation
AltMoveCard(r) ==
    /\ pc[r] = "alt_move"
    /\ LET req == MoveVars(r, "set_status_alt")
       IN  /\ \E raw \in RawResponses(MovePayloads(req.item), EmptyMovePayload) :
                LET resp == gql(raw)
                IN  /\ confirmation' = [confirmation EXCEPT ![r] =
                                           IF Confirmed(resp) THEN raw ELSE NoRaw]
                    /\ card' = CardAfter(req, raw)
                    /\ moved' = [moved EXCEPT ![r] =
                                    IF Confirmed(resp) THEN "alt"
                                    ELSE IF Raises(resp) THEN "alt_raised"
                                    ELSE "failed"]
           /\ Log(r, req)
    /\ Goto(r, "comment")
    /\ UNCHANGED <<crewVars, notes, fetchVars, globalVars, mainVars, content_id, add_item, repoVars,
                   items, ensured>>

----------------------------------------------------------------------------
(* main(), lines 361-380: issue comment and Slack ping *)

\* lines 361-368: issue.create_comment; move_issue_to_dev's locals are gone
CreateComment(r) ==
    /\ pc[r] = "comment"
    /\ content_id' = [content_id EXCEPT ![r] = None]
    /\ add_item' = [add_item EXCEPT ![r] = "not_called"]
    /\ confirmation' = [confirmation EXCEPT ![r] = NoRaw]
    /\ moved' = [moved EXCEPT ![r] = "not_called"]
    /\ Goto(r, "slack")
    /\ Op(r, "comment")
    /\ UNCHANGED <<crewVars, notes, fetchVars, globalVars, mainVars, repoVars, boardVars>>

\* lines 371-380: requests.post(SLACK, ...); every failure is caught
SlackPing(r) ==
    /\ pc[r] = "slack"
    /\ \E delivered \in BOOLEAN :
         notes' = [notes EXCEPT ![r] = Append(@, Note("pr_opened", delivered))]
    /\ Goto(r, "returned")
    /\ Op(r, "slack")
    /\ UNCHANGED <<crewVars, fetchVars, globalVars, mainVars, moveVars, repoVars, boardVars>>

----------------------------------------------------------------------------
(* update_file, core_engineers.py 108-126 and qa_perf.py 129-147 *)

\* the revision marker of a file's content
ShaOf(content) == "sha:" \o content

\* a repository write as recorded in `writes`
Write(op, path, sha) == [op |-> op, path |-> path, sha |-> sha]

\* outcomes of the three calls update_file may make: a call reaches the host
\* ("ok") or fails on the way ("error")
CallOutcomes == [get : {"ok", "error"}, update : {"ok", "error"}, create : {"ok", "error"}]

\* update_file(pr, file_path, content, commit_message) on branch h: the writes
\* requested, the branch afterwards and the value returned
update_file(h, file_path, content, o) ==
    IF o.get = "ok" /\ h[file_path] # Absent                       \* lines 113-114
    THEN IF o.update = "ok"                                        \* line 116
         THEN [reqs |-> <<Write("update_file", file_path, ShaOf(h[file_path]))>>,
               head |-> [h EXCEPT ![file_path] = content],
               result |-> TRUE]                                    \* line 123
         \* line 118: the bare except also catches the failed update; the host
         \* refuses to create a path that exists, lines 124-126
         ELSE [reqs |-> <<Write("update_file", file_path, ShaOf(h[file_path])),
                          Write("create_file", file_path, None)>>,
               head |-> h,
               result |-> FALSE]
    ELSE IF o.create = "ok" /\ h[file_path] = Absent               \* line 120
         THEN [reqs |-> <<Write("create_file", file_path, None)>>,
               head |-> [h EXCEPT ![file_path] = content],
               result |-> TRUE]
         ELSE [reqs |-> <<Write("create_file", file_path, None)>>,
               head |-> h,
               result |-> FALSE]                                   \* lines 124-126

----------------------------------------------------------------------------
(* notify_slack, chief_architect.py 54-67, core_engineers.py 62-71,        *)
(* qa_perf.py 61-70                                                        *)

\* A mutant of notify_slack: a failed post raises past the function.
notify_slack_Raises(r, kind, next) ==
    \E delivered \in BOOLEAN :
        /\ notes' = [notes EXCEPT ![r] = Append(@, Note(kind, delivered))]
        /\ Goto(r, IF delivered THEN next ELSE "returned")

\* requests.post(SLACK_WEBHOOK, ...) with a 10 s timeout: delivered, or a
\* RequestException that is caught; either way the caller goes on to `next`
notify_slack(r, kind, next) ==
    \E delivered \in BOOLEAN :
        /\ notes' = [notes EXCEPT ![r] = Append(@, Note(kind, delivered))]
        /\ Goto(r, next)

----------------------------------------------------------------------------
(* core_engineers.py: process_pr and main *)

\* is the content empty or whitespace: file_content.strip() == ""
IsBlank(content) == \A i \in 1..Len(content) : SubSeq(content, i, i) = " "

\* lines 225-233: get_pr and the state test; every failure makes process_pr
\* return False
CeGetPr(r) ==
    /\ pc[r] = "ce_get_pr"
    /\ \E outcome \in {"open", "closed", "error"} :
         Goto(r, IF outcome = "open" THEN "ce_get_issue" ELSE "ce_warn")
    /\ Op(r, "get_pull")
    /\ UNCHANGED <<orchVars, crewVars, notes>>

\* lines 238-241 and 81-97: the issue the pull request's body refers to
CeGetIssue(r) ==
    /\ pc[r] = "ce_get_issue"
    /\ \E outcome \in {"issue", "none"} :
         Goto(r, IF outcome = "issue" THEN "ce_analyze" ELSE "ce_warn")
    /\ Op(r, "get_issue")
    /\ UNCHANGED <<orchVars, crewVars, notes>>

\* lines 246-249 and 162-192: analyze_issue returns the model's text or None
CeAnalyze(r) ==
    /\ pc[r] = "ce_analyze"
    /\ \E issue_analysis \in {Generated, "", None} :
         Goto(r, IF issue_analysis \in {"", None} THEN "ce_warn" ELSE "ce_get_files")
    /\ Op(r, "openai")
    /\ UNCHANGED <<orchVars, crewVars, notes>>

\* line 255: list(pr.get_files()); an exception is caught at line 322
CeGetFiles(r) ==
    /\ pc[r] = "ce_get_files"
    /\ \/ \E n \in 0..MaxFiles :
            /\ pr_files' = SubSeq(PrPaths, 1, n)
            /\ idx' = 1
            /\ Goto(r, IF n = 0 THEN "ce_comment" ELSE "ce_scan")
       \/ /\ Goto(r, "ce_warn")
          /\ UNCHANGED <<pr_files, idx>>
    /\ Op(r, "get_files")
    /\ UNCHANGED <<orchVars, script, env, writes, head, reviews, review_comments, tasks, generated_files,
                   prs_to_review, success, notes>>

\* get_file_content, lines 99-106: the decoded content, or None on any exception
get_file_content(h, file_path, outcome) ==
    IF outcome = "ok" /\ h[file_path] # Absent THEN h[file_path] ELSE None

\* lines 258-272, one file of the loop: a file that reads as nothing or as
\* whitespace becomes a task
CeScan(r) ==
    /\ pc[r] = "ce_scan"
    /\ idx <= Len(pr_files)
    /\ \E outcome \in {"ok", "error"} :
         LET file_path    == pr_files[idx]
             file_content == get_file_content(head, file_path, outcome)
         IN  tasks' = IF file_content = None \/ file_content = "" \/ IsBlank(file_content)
                      THEN Append(tasks, file_path)
                      ELSE tasks
    /\ IF idx = Len(pr_files)
       THEN idx' = 1 /\ Goto(r, IF tasks' = <<>> THEN "ce_comment" ELSE "ce_task")
       ELSE idx' = idx + 1 /\ UNCHANGED pc
    /\ Op(r, "get_contents")
    /\ UNCHANGED <<orchVars, script, env, writes, head, reviews, review_comments, pr_files, generated_files,
                   prs_to_review, success, notes>>

\* lines 275-298, one task of the loop: implement_task, then update_file unless
\* no code came back
CeTask(r) ==
    /\ pc[r] = "ce_task"
    /\ idx <= Len(tasks)
    /\ \E code \in {Generated, "", None} :
         IF code \in {"", None}
         THEN UNCHANGED <<writes, head>>                              \* lines 287-289
         ELSE \E o \in CallOutcomes :
                LET u == update_file(head, tasks[idx], code, o)
                IN  /\ writes' = [writes EXCEPT ![r] = @ \o u.reqs]
                    /\ head' = u.head
    /\ IF idx = Len(tasks)
       THEN idx' = 1 /\ Goto(r, "ce_comment")
       ELSE idx' = idx + 1 /\ UNCHANGED pc
    /\ Op(r, "openai")
    /\ UNCHANGED <<orchVars, script, env, reviews, review_comments, pr_files, tasks, generated_files,
                   prs_to_review, success, notes>>

\* line 315: pr.create_issue_comment; an exception is caught at line 322
CeComment(r) ==
    /\ pc[r] = "ce_comment"
    /\ \/ /\ writes' = [writes EXCEPT ![r] = Append(@, Write("comment", "", None))]
          /\ Goto(r, "ce_notify")
       \/ /\ Goto(r, "ce_warn")
          /\ UNCHANGED writes
    /\ UNCHANGED <<orchVars, ops, script, env, head, reviews, review_comments, pr_files, tasks, generated_files,
                   prs_to_review, idx, success, notes>>

\* lines 318-320 and 333-339: the completion message, then process_pr returns True
CeNotifyDone(r) ==
    /\ pc[r] = "ce_notify"
    /\ notify_slack(r, "done", "returned")
    /\ success' = "True"
    /\ UNCHANGED <<orchVars, ops, script, env, writes, head, reviews, review_comments, pr_files, tasks,
                   generated_files, prs_to_review, idx>>

\* lines 341-345: process_pr returned False; main posts the warning
CeWarn(r) ==
    /\ pc[r] = "ce_warn"
    /\ notify_slack(r, "warning", "returned")
    /\ success' = "False"
    /\ UNCHANGED <<orchVars, ops, script, env, writes, head, reviews, review_comments, pr_files, tasks,
                   generated_files, prs_to_review, idx>>

----------------------------------------------------------------------------
(* qa_perf.py: get_pr_files, process_pr and main *)

\* positions of the character ch in s
Positions(s, ch) == { i \in 1..Len(s) : SubSeq(s, i, i) = ch }
Max(S) == CHOOSE x \in S : \A y \in S : y <= x
Min(S) == CHOOSE x \in S : \A y \in S : x <= y

\* os.path.basename(path)
Basename(path) ==
    IF Positions(path, "/") = {} THEN path
    ELSE SubSeq(path, Max(Positions(path, "/")) + 1, Len(path))

\* s.split('.')[0]
Stem(s) ==
    IF Positions(s, ".") = {} THEN s ELSE SubSeq(s, 1, Min(Positions(s, ".")) - 1)

\* path.split('.')[-1].lower()
Ext(path) ==
    IF Positions(path, ".") = {} THEN Lower(path)
    ELSE Lower(SubSeq(path, Max(Positions(path, ".")) + 1, Len(path)))

\* s.endswith(suffix)
EndsWith(s, suffix) ==
    Len(s) >= Len(suffix) /\ SubSeq(s, Len(s) - Len(suffix) + 1, Len(s)) = suffix

\* lines 96-113: the group get_pr_files puts a path in
Group(path) ==
    IF Contains(Lower(path), "test") \/ StartsWith(path, "tests/") THEN "tests"
    ELSE IF Contains(Lower(path), "benchmark") THEN "benchmark"
    ELSE IF Ext(path) \in {"cpp", "cc", "cxx"} THEN "cpp"
    ELSE IF Ext(path) \in {"hpp", "h", "hxx"} THEN "hpp"
    ELSE IF Ext(path) = "inl" THEN "inl"
    ELSE IF path = "CMakeLists.txt" \/ EndsWith(path, ".cmake") THEN "cmake"
    ELSE "other"

\* the group of each path a pull request may list
GroupOf == [i \in 1..Len(PrPaths) |-> Group(PrPaths[i])]

\* file_groups[g]: the listed paths of group g, in listing order
RECURSIVE FileGroup(_, _)
FileGroup(listing, g) ==
    IF listing = <<>> THEN <<>>
    ELSE (IF \E i \in 1..Len(PrPaths) : PrPaths[i] = Head(listing) /\ GroupOf[i] = g
          THEN <<Head(listing)>> ELSE <<>>) \o FileGroup(Tail(listing), g)

\* line 303: the test file of a header
TestPath(hpp_file) == "tests/" \o Stem(Basename(hpp_file)) \o "Tests.cpp"
TestPathOf == [i \in 1..Len(PrPaths) |-> TestPath(PrPaths[i])]
BasenameOf == [i \in 1..Len(PrPaths) |-> Basename(PrPaths[i])]

\* lines 306-310: does a listed test file carry the header's test name
ExistingTest(listing, i) ==
    \E j \in 1..Len(listing) :
        \E k \in 1..Len(PrPaths) :
            /\ PrPaths[k] = listing[j]
            /\ GroupOf[k] = "tests"
            /\ "tests/" \o BasenameOf[k] = TestPathOf[i]

\* lines 255-263
QaGetPr(r) ==
    /\ pc[r] = "qa_get_pr"
    /\ \E outcome \in {"open", "closed", "error"} :
         Goto(r, IF outcome = "open" THEN "qa_get_files" ELSE "qa_warn")
    /\ Op(r, "get_pull")
    /\ UNCHANGED <<orchVars, crewVars, notes>>

\* lines 268-283: the listing, then the content of every cpp, hpp and inl file
\* of it; with no readable, non-empty code file process_pr returns False
QaGetFiles(r) ==
    /\ pc[r] = "qa_get_files"
    /\ \/ \E n \in 0..MaxFiles, readable \in SUBSET {PrPaths[i] : i \in 1..MaxFiles} :
            LET listing    == SubSeq(PrPaths, 1, n)
                code_paths == FileGroup(listing, "cpp") \o FileGroup(listing, "hpp")
                                \o FileGroup(listing, "inl")
                code_files == { q \in readable :
                                  /\ \E i \in 1..Len(code_paths) : code_paths[i] = q
                                  /\ head[q] \notin {Absent, ""} }
            IN  /\ pr_files' = listing
                /\ idx' = 1
                /\ Goto(r, IF code_files = {} THEN "qa_warn" ELSE "qa_analyze")
       \/ /\ Goto(r, "qa_warn")                                   \* lines 116-118, 269
          /\ UNCHANGED <<pr_files, idx>>
    /\ Op(r, "get_files")
    /\ UNCHANGED <<orchVars, script, env, writes, head, reviews, review_comments, tasks, generated_files,
                   prs_to_review, success, notes>>

\* lines 288-291 and 217-250, then the headers to write tests for (line 301)
QaAnalyze(r) ==
    /\ pc[r] = "qa_analyze"
    /\ \E code_analysis \in {Generated, "", None} :
         IF code_analysis \in {"", None}
         THEN Goto(r, "qa_warn") /\ UNCHANGED tasks
         ELSE /\ tasks' = FileGroup(pr_files, "hpp")
              /\ Goto(r, IF tasks' = <<>> THEN "qa_benchmark" ELSE "qa_test")
    /\ Op(r, "openai")
    /\ UNCHANGED <<orchVars, script, env, writes, head, reviews, review_comments, pr_files, generated_files,
                   prs_to_review, idx, success, notes>>

\* lines 301-343, one header of the loop
QaTest(r) ==
    /\ pc[r] = "qa_test"
    /\ idx <= Len(tasks)
    /\ LET i == CHOOSE k \in 1..Len(PrPaths) : PrPaths[k] = tasks[idx]
       IN  IF ExistingTest(pr_files, i)
           THEN UNCHANGED <<writes, head, generated_files>>        \* lines 312-314
           ELSE \E test_code \in {Generated, "", None} :
                  IF test_code \in {"", None}
                  THEN UNCHANGED <<writes, head, generated_files>> \* lines 333-335
                  ELSE \E o \in CallOutcomes :
                         LET u == update_file(head, TestPathOf[i], test_code, o)
                         IN  /\ writes' = [writes EXCEPT ![r] = @ \o u.reqs]
                             /\ head' = u.head
                             /\ generated_files' =
                                   IF u.result THEN Append(generated_files, TestPathOf[i])
                                   ELSE generated_files
    /\ IF idx = Len(tasks)
       THEN idx' = 1 /\ Goto(r, "qa_benchmark")
       ELSE idx' = idx + 1 /\ UNCHANGED pc
    /\ Op(r, "openai")
    /\ UNCHANGED <<orchVars, script, env, reviews, review_comments, pr_files, tasks, prs_to_review, success, notes>>

\* lines 346-374: the benchmark file
QaBenchmark(r) ==
    /\ pc[r] = "qa_benchmark"
    /\ \E benchmark_code \in {Generated, "", None} :
         IF benchmark_code \in {"", None}
         THEN UNCHANGED <<writes, head, generated_files>>
         ELSE \E o \in CallOutcomes :
                LET u == update_file(head, BenchmarkPath, benchmark_code, o)
                IN  /\ writes' = [writes EXCEPT ![r] = @ \o u.reqs]
                    /\ head' = u.head
                    /\ generated_files' =
                          IF u.result THEN Append(generated_files, BenchmarkPath)
                          ELSE generated_files
    /\ Goto(r, "qa_comment")
    /\ Op(r, "openai")
    /\ UNCHANGED <<orchVars, script, env, reviews, review_comments, pr_files, tasks, prs_to_review, idx, success,
                   notes>>

\* line 397: pr.create_issue_comment; an exception is caught at line 404
QaComment(r) ==
    /\ pc[r] = "qa_comment"
    /\ \/ /\ writes' = [writes EXCEPT ![r] = Append(@, Write("comment", "", None))]
          /\ Goto(r, "qa_notify")
       \/ /\ Goto(r, "qa_warn")
          /\ UNCHANGED writes
    /\ UNCHANGED <<orchVars, ops, script, env, head, reviews, review_comments, pr_files, tasks, generated_files,
                   prs_to_review, idx, success, notes>>

\* lines 400-402 and 415-423: the completion message; process_pr returns
\* len(generated_files) > 0, and main goes to its else branch when that is False
QaNotifyDone(r) ==
    /\ pc[r] = "qa_notify"
    /\ notify_slack(r, "done", IF Len(generated_files) > 0 THEN "returned" ELSE "qa_warn")
    /\ success' = IF Len(generated_files) > 0 THEN "True" ELSE "False"
    /\ UNCHANGED <<orchVars, ops, script, env, writes, head, reviews, review_comments, pr_files, tasks,
                   generated_files, prs_to_review, idx>>

\* lines 423-427: process_pr returned False; main posts the warning
QaWarn(r) ==
    /\ pc[r] = "qa_warn"
    /\ notify_slack(r, "warning", "returned")
    /\ success' = "False"
    /\ UNCHANGED <<orchVars, ops, script, env, writes, head, reviews, review_comments, pr_files, tasks,
                   generated_files, prs_to_review, idx>>

----------------------------------------------------------------------------
(* chief_architect.py: get_pr, add_review_comment and main *)

\* lines 77-90: the open pull requests that have neither an approving review
\* nor one that requests changes, in listing order
RECURSIVE PendingFrom(_, _)
PendingFrom(n, rv) ==
    IF n > MaxPulls THEN <<>>
    ELSE (IF "APPROVED" \notin rv[n] /\ "CHANGES_REQUESTED" \notin rv[n]
          THEN <<n>> ELSE <<>>) \o PendingFrom(n + 1, rv)

pending_review(rv) == PendingFrom(1, rv)

\* lines 213-229: the pull requests to review; without any, main returns
CaMain(r) ==
    /\ pc[r] = "ca_main"
    /\ IF env["PR_NUMBER"]
       THEN \E outcome \in {"found", "error"} :                      \* lines 215-221
              /\ prs_to_review' = IF outcome = "found" THEN <<1>> ELSE <<>>
              /\ Goto(r, IF outcome = "found" THEN "ca_review" ELSE "returned")
              /\ Op(r, "get_pull")
       ELSE \E outcome \in {"listed", "error"} :                     \* lines 224-229
              /\ prs_to_review' = IF outcome = "listed" THEN pending_review(reviews)
                                  ELSE <<>>
              /\ Goto(r, IF prs_to_review' = <<>> THEN "returned" ELSE "ca_review")
              /\ Op(r, "get_pulls")
    /\ idx' = 1
    /\ UNCHANGED <<orchVars, script, env, writes, head, reviews, review_comments,
                   pr_files, tasks, generated_files, success, notes>>

\* outcomes of the calls one review makes: get_file_changes (lines 95-122),
\* create_issue_comment (line 191), create_review (line 195)
ReviewOutcomes ==
    [changes : {"some", "none", "raise"},
     comment : {"ok", "error", "raise"},
     review  : {"ok", "error422", "error"}]

\* did the review of one pull request get as far as its comment, its approval,
\* its notification
Commented(o) == o.changes = "some" /\ o.comment = "ok"
Approved(o)  == Commented(o) /\ o.review = "ok"
Notifies(o)  == o.changes = "some" /\ o.comment # "raise"

\* the loop of lines 231-255 goes on with the next pull request, or ends
NextPull(r) ==
    IF idx = Len(prs_to_review)
    THEN idx' = 1 /\ Goto(r, "returned")
    ELSE idx' = idx + 1 /\ Goto(r, "ca_review")

\* lines 231-247 and 254, one pull request of the loop up to its notification:
\* an empty change list skips it (line 241); an exception that is no
\* GithubException skips the rest of the body (line 254)
CaReview(r) ==
    /\ pc[r] = "ca_review"
    /\ idx <= Len(prs_to_review)
    /\ \E o \in ReviewOutcomes :
         LET n == prs_to_review[idx]
         IN  /\ review_comments' = [review_comments EXCEPT ![n] =
                                       IF Commented(o) THEN @ + 1 ELSE @]
             /\ reviews' = [reviews EXCEPT ![n] =
                               IF Approved(o) THEN @ \cup {"APPROVED"} ELSE @]
             /\ writes' = [writes EXCEPT ![r] =
                    @ \o (IF Commented(o) THEN <<Write("comment", "", None)>> ELSE <<>>)
                      \o (IF Approved(o) THEN <<Write("review", "", None)>> ELSE <<>>)]
             /\ IF Notifies(o)
                THEN Goto(r, "ca_notify") /\ UNCHANGED idx
                ELSE NextPull(r)
    /\ Op(r, "get_files")
    /\ UNCHANGED <<orchVars, script, env, head, pr_files, tasks, generated_files,
                   prs_to_review, success, notes>>

\* line 250 and lines 54-67: notify_slack posts only when SLACK_WEBHOOK is set
CaNotify(r) ==
    /\ pc[r] = "ca_notify"
    /\ IF env["SLACK_WEBHOOK"]
       THEN \E next \in {"returned", "ca_review"} :
              /\ notify_slack(r, "reviewed", next)
              /\ next = "returned" <=> idx = Len(prs_to_review)
       ELSE /\ Goto(r, IF idx = Len(prs_to_review) THEN "returned" ELSE "ca_review")
            /\ UNCHANGED notes
    /\ idx' = IF idx = Len(prs_to_review) THEN 1 ELSE idx + 1
    /\ UNCHANGED <<orchVars, ops, script, env, writes, head, reviews, review_comments,
                   pr_files, tasks, generated_files, prs_to_review, success>>

----------------------------------------------------------------------------

Next ==
    \E r \in Runs :
        \/ Start(r)
        \/ QueryProjects(r)
        \/ UsingProject(r)
        \/ QueryField(r)
        \/ QueryOptionId(r)
        \/ CreateBranch(r)
        \/ CheckFile(r)
        \/ CreateFile(r)
        \/ GetPulls(r)
        \/ CreatePull(r)
        \/ GetIssue(r)
        \/ QueryIssueId(r)
        \/ AddItem(r)
        \/ MoveCard(r)
        \/ AltMoveCard(r)
        \/ CreateComment(r)
        \/ SlackPing(r)
        \/ Exit(r)
        \/ CeGetPr(r)
        \/ CeGetIssue(r)
        \/ CeAnalyze(r)
        \/ CeGetFiles(r)
        \/ CeScan(r)
        \/ CeTask(r)
        \/ CeComment(r)
        \/ CeNotifyDone(r)
        \/ CeWarn(r)
        \/ QaGetPr(r)
        \/ QaGetFiles(r)
        \/ QaAnalyze(r)
        \/ QaTest(r)
        \/ QaBenchmark(r)
        \/ QaComment(r)
        \/ QaNotifyDone(r)
        \/ QaWarn(r)
        \/ CaMain(r)
        \/ CaReview(r)
        \/ CaNotify(r)

Spec == Init /\ [][Next]_vars

----------------------------------------------------------------------------
(* Properties *)

IsStatusReq(q) == q.op \in {"set_status", "set_status_alt"}
IsMutation(q)  == q.op \in {"add_item", "set_status", "set_status_alt"}
Count(r, op)   == Cardinality({ i \in 1..Len(sent[r]) : sent[r][i].op = op })
Listing(r)     == viewer_nodes[r] \o repo_nodes[r]
HasFragment(n) == n.kind # "null" /\ Contains(n.title, "SimplyECS")
AfterProjects(r) ==
    pc[r] \in {"using", "exit1"} /\ Len(sent[r]) = 1 /\ sent[r][1].op = "query_projects"

\* C1: every status mutation carries as itemId the id of the project item that
\* wraps the issue, and never the issue's own content id.
C1_StatusItemIsProjectItem ==
    \A r \in Runs : \A i \in 1..Len(sent[r]) :
        IsStatusReq(sent[r][i]) =>
            /\ sent[r][i].item # IssueNodeId
            /\ \E it \in items : /\ it.id = sent[r][i].item
                                 /\ it.project = sent[r][i].proj
                                 /\ it.content = IssueNodeId

C2_State ==
    \A r \in Runs :
        /\ (PROJECT_ID[r] = None) = (STATUS_FIELD_ID[r] = None)
        /\ (PROJECT_ID[r] = None) = (DEV_OPTION_ID[r] = None)
        /\ Count(r, "query_projects") <= 1
        /\ Count(r, "query_field") <= 1
        /\ Count(r, "query_option_id") <= 1
        /\ \A i \in 1..Len(sent[r]) :
             LET q == sent[r][i]
             IN  /\ IsMutation(q) =>
                      /\ q.proj = PROJECT_ID[r]
                      /\ q.proj \in ProjectIds
                      /\ \E j \in 1..(i - 1) : sent[r][j].op = "query_field"
                 /\ IsStatusReq(q) =>
                      /\ q.field = STATUS_FIELD_ID[r]
                      /\ q.field = FieldIdOf(q.proj)
                      /\ q.opt = DEV_OPTION_ID[r]
                      /\ OptionOwner(q.opt) = q.proj

C2_Step ==
    \A r \in Runs :
        (PROJECT_ID[r] # None /\ pc'[r] # "done") =>
            /\ PROJECT_ID'[r] = PROJECT_ID[r]
            /\ STATUS_FIELD_ID'[r] = STATUS_FIELD_ID[r]
            /\ DEV_OPTION_ID'[r] = DEV_OPTION_ID[r]

\* C2: the project id, Status field id and Dev option id of a run are assigned
\* together, by resolution queries sent once each and before any mutation, keep
\* their values while the run lasts, and every add-item and status mutation of
\* the run (primary and alternative) carries exactly them, the field and the
\* option being those of the selected project.
C2_IdsResolvedOnce == []C2_State /\ [][C2_Step]_vars

\* a run has sent the primary and the alternative status mutation
C2_Witness ==
    \E r \in Runs :
        /\ Count(r, "add_item") = 1
        /\ Count(r, "set_status") = 1
        /\ Count(r, "set_status_alt") = 1
        /\ PROJECT_ID[r] = "PVT_3"

\* C3: the project selected is the first board, in viewer-then-repository order,
\* whose title contains "SimplyECS"; when no board's title contains it the
\* script is at exit(1) with no project selected.
C3_FirstMatchingBoard ==
    \A r \in Runs :
        LET ns  == Listing(r)
            hit == { i \in 1..Len(ns) : HasFragment(ns[i]) }
        IN  /\ pc[r] = "using" =>
                 \E i \in hit : /\ \A j \in hit : i <= j
                                /\ project_id[r] = ns[i].id
            /\ (AfterProjects(r) /\ hit = {}) =>
                 pc[r] = "exit1" /\ project_id[r] = None /\ PROJECT_ID[r] = None

\* the repository's listing matches too, after the viewer's first match
C3_Witness ==
    \E r \in Runs :
        /\ pc[r] = "using"
        /\ viewer_nodes[r] = <<Board("PVT_3")>>
        /\ repo_nodes[r] = <<Board("PVT_1")>>
        /\ project_id[r] = "PVT_3"

\* C4: a run whose resolution of project, field or option failed is at exit(1),
\* has sent each resolution query at most once, has assigned no id, and has
\* attempted no branch, file, pull-request, project-item, issue or Slack operation.
C4_FailedResolutionExits ==
    \A r \in Runs :
        err[r] # "" =>
            /\ pc[r] = "exit1"
            /\ ops[r] \subseteq {"repo"}
            /\ \A i \in 1..Len(sent[r]) : ~IsMutation(sent[r][i])
            /\ Count(r, "query_projects") <= 1
            /\ Count(r, "query_field") <= 1
            /\ Count(r, "query_option_id") = 0
            /\ PROJECT_ID[r] = None /\ STATUS_FIELD_ID[r] = None /\ DEV_OPTION_ID[r] = None

\* the Status field came back without a Dev option
C4_Witness ==
    \E r \in Runs :
        /\ pc[r] = "exit1"
        /\ Count(r, "query_field") = 1
        /\ status_field_id[r] # None
        /\ dev_option[r] = NoOption
        /\ ops[r] = {"repo"}

\* C5: when no board's title contains the fragment, the error names the
\* fragment and lists the titles of the boards the query returned.
C5_NoMatchErrorListsTitles ==
    \A r \in Runs :
        (pc[r] = "exit1" /\ AfterProjects(r) /\ err[r] # ErrProjQuery) =>
            /\ Contains(err[r], "SimplyECS")
            /\ \A i \in 1..Len(Listing(r)) :
                 Listing(r)[i].kind = "board" => Contains(err[r], Listing(r)[i].title)

\* C6: when the Status field came back with its options: if none is named "Dev"
\* whatever its case, the script is at exit(1) with an error that holds every
\* option name returned; otherwise the option picked is the first so named, and
\* the id resolved denotes that option of the selected project.
C6_DevOptionOrListedNames ==
    \A r \in Runs :
        status_field_id[r] # None =>
            LET opts == status_options[r]
                hit  == { k \in 1..Len(opts) : Lower(opts[k].name) = "dev" }
            IN  /\ hit = {} =>
                     /\ pc[r] = "exit1"
                     /\ dev_option[r] = NoOption
                     /\ \A k \in 1..Len(opts) : Contains(err[r], opts[k].name)
                /\ hit # {} =>
                     /\ pc[r] \in {"q_option", "main"}
                     /\ \E k \in hit : /\ \A j \in hit : k <= j
                                       /\ dev_option[r] = opts[k]
                                       /\ pc[r] = "main" =>
                                            /\ OptionNumber(DEV_OPTION_ID[r]) = k
                                            /\ OptionOwner(DEV_OPTION_ID[r]) = project_id[r]

\* two options, neither named Dev: the error lists both
C6_Witness ==
    \E r \in Runs :
        /\ pc[r] = "exit1"
        /\ Len(status_options[r]) = 2
        /\ err[r] = "'Dev' secenegi bulunamadi. Mevcut secenekler: Todo, Todo"

\* C7: the Dev option id resolved is the id that came with the Status field and
\* its options; no id of a second round trip is put in its place.
C7_DevOptionIdFromFieldQuery ==
    \A r \in Runs : pc[r] = "main" => DEV_OPTION_ID[r] = dev_option[r].id

\* C8: when the add call returned no item id and no listing of the project's
\* items found the item, no status mutation is issued.
C8_NoMutationWithoutItem ==
    \A r \in Runs :
        (add_item[r] = "no_item_id" /\ Count(r, "list_items") = 0) =>
            \A i \in 1..Len(sent[r]) : ~IsStatusReq(sent[r][i])

IsItemId(x) == x \notin {"not_called", "failed", "no_item_id"}

C10_SuccessOnlyOnConfirmation ==
    \A r \in Runs :
        moved[r] \in {"primary", "alt"} =>
            /\ confirmation[r].transport = "ok"
            /\ ~confirmation[r].errors
            /\ confirmation[r].dataKind = "object"
            /\ confirmation[r].data.shape = "item"

\* the alternative mutation was confirmed after the primary was not
C10_Witness ==
    \E r \in Runs :
        /\ moved[r] = "alt"
        /\ confirmation[r].data.shape = "item"
        /\ Count(r, "set_status_alt") = 1

----------------------------------------------------------------------------
(* The retry of the status mutation *)

\* position of the first request of kind op in the run's log, 0 if none
IndexOf(r, op) ==
    IF \E i \in 1..Len(sent[r]) : sent[r][i].op = op
    THEN CHOOSE i \in 1..Len(sent[r]) :
             sent[r][i].op = op /\ \A j \in 1..(i - 1) : sent[r][j].op # op
    ELSE 0

\* C11: a second status mutation is sent only after the option was re-resolved
\* by a normalization query that follows the first attempt, and it carries an
\* option id other than the one the first attempt sent.
C11_RetryCarriesAlternateId ==
    \A r \in Runs :
        IndexOf(r, "set_status_alt") # 0 =>
            LET first == IndexOf(r, "set_status")
                retry == IndexOf(r, "set_status_alt")
            IN  /\ first # 0 /\ first < retry
                /\ sent[r][retry].opt # sent[r][first].opt
                /\ \E k \in (first + 1)..(retry - 1) : sent[r][k].op = "query_option_id"

\* the positions of a run's status mutations in its log of requests
StatusReqs(r) == { i \in 1..Len(sent[r]) : IsStatusReq(sent[r][i]) }

\* how far move_issue_to_dev has got; the call strictly advances through these
MoveRank(label) ==
    CASE label = "q_issue"  -> 1
      [] label = "add_item" -> 2
      [] label = "move"     -> 3
      [] label = "alt_move" -> 4
      [] OTHER              -> 5

InMove(r) == pc[r] \in {"q_issue", "add_item", "move", "alt_move"}

C12_State ==
    \A r \in Runs :
        /\ Cardinality(StatusReqs(r)) <= 2
        /\ Count(r, "set_status") <= 1
        /\ Count(r, "set_status_alt") <= 1
        /\ Count(r, "set_status_alt") = 1 =>
              /\ IndexOf(r, "set_status") # 0
              /\ IndexOf(r, "set_status") < IndexOf(r, "set_status_alt")
              /\ moved[r] \notin {"primary", "raised"}
        /\ moved[r] \in {"primary", "raised"} => Count(r, "set_status_alt") = 0

C12_Step ==
    \A r \in Runs :
        /\ (InMove(r) /\ pc'[r] # pc[r]) => MoveRank(pc'[r]) > MoveRank(pc[r])
        /\ Len(sent'[r]) > Len(sent[r]) /\ sent'[r][Len(sent'[r])].op = "set_status_alt"
              => /\ moved[r] = "not_called"
                 /\ confirmation[r] = NoRaw
                 /\ Count(r, "set_status") = 1

\* C12: a call of move_issue_to_dev sends at most two status mutations, the
\* second only after the first came back without the confirmation object and
\* never a third, and every step of the call moves it strictly forward through
\* its four requests, so the call ends after at most four of them.
C12_AtMostTwoStatusMutations == []C12_State /\ [][C12_Step]_vars

\* both mutations were sent and the call has returned
C12_Witness ==
    \E r \in Runs :
        /\ pc[r] = "comment"
        /\ Count(r, "set_status") = 1
        /\ Count(r, "set_status_alt") = 1
        /\ moved[r] = "failed"

----------------------------------------------------------------------------
(* What move_issue_to_dev hands back *)

\* lines 248-280: every path of move_issue_to_dev falls off the end of the
\* function, whatever the outcome; main (line 357) calls it as a statement
ReturnValue(outcome) == None

\* C13: when move_issue_to_dev has returned to main, the value main received
\* tells a confirmed move ("True") from one that was not confirmed ("False").
C13_OutcomeReportedToCaller ==
    \A r \in Runs :
        (pc[r] = "comment" /\ moved[r] \in {"primary", "alt", "failed"}) =>
            ReturnValue(moved[r]) = (IF moved[r] = "failed" THEN "False" ELSE "True")

----------------------------------------------------------------------------
(* Round trip of the card move *)

\* the Status value a read of the issue's item on the run's project returns
StatusRead(r) ==
    { card[it.id] : it \in { x \in ItemsOf(PROJECT_ID[r], IssueNodeId) : x.id \in DOMAIN card } }

----------------------------------------------------------------------------
(* Notifications *)

\* the steps that post to the chat webhook
Notifying(r) ==
    \/ SlackPing(r)
    \/ CeNotifyDone(r)
    \/ CeWarn(r)
    \/ QaNotifyDone(r)
    \/ QaWarn(r)
    \/ CaNotify(r)

\* a notifying step of run r whose post was delivered, or was not
Attempt(r, delivered) ==
    /\ Notifying(r)
    /\ Len(notes'[r]) = Len(notes[r]) + 1
    /\ notes'[r][Len(notes'[r])].delivered = delivered

\* where a run can be after a notifying step, and what the step can have written
AfterNotify == {"returned", "qa_warn", "ca_review"}

\* can a notifying step of run r with this delivery end at `label` with the
\* result `result`, having requested no write and left the host as it was
CanEnd(r, delivered, label, result) ==
    ENABLED (/\ Attempt(r, delivered)
             /\ pc'[r] = label
             /\ success' = result
             /\ UNCHANGED <<writes, head, reviews, review_comments>>)

\* can a notifying step of run r with this delivery end in any other way
CanEndOtherwise(r, delivered) ==
    ENABLED (/\ Attempt(r, delivered)
             /\ \/ pc'[r] \notin AfterNotify
                \/ success' \notin {"True", "False", None}
                \/ <<writes, head, reviews, review_comments>>' #
                       <<writes, head, reviews, review_comments>>)

\* C15: a failed webhook post never leaves the notifying step and never changes
\* the run: whatever a step with an undelivered post can end in (the place the
\* run goes on from, the result it reports, no write requested), the same
\* step with a delivered post can end in too, and the other way round.
C15_NotificationIsolation ==
    \A r \in Runs :
        pc[r] \in {"slack", "ce_notify", "ce_warn", "qa_notify", "qa_warn", "ca_notify"} =>
            /\ ~CanEndOtherwise(r, FALSE)
            /\ ~CanEndOtherwise(r, TRUE)
            /\ \A label \in AfterNotify, result \in {"True", "False", None} :
                   CanEnd(r, FALSE, label, result) <=> CanEnd(r, TRUE, label, result)

\* a QA/perf run that generated nothing went on to its warning after its
\* completion message was not delivered
C15_Witness ==
    \E r \in Runs :
        /\ pc[r] = "qa_warn"
        /\ Len(notes[r]) = 1
        /\ ~notes[r][1].delivered
        /\ success = "False"

\* the pull requests the chief architect took up in run r
TakenUp(r) == IF script = "chief_architect" THEN Len(prs_to_review) ELSE 0

\* C16: every unit of work a role starts ends with a notification attempt: a
\* run of the orchestrator, the core engineers or QA/perf whose main has
\* returned has posted to the webhook, and a chief architect whose main has
\* returned has posted once for each pull request it took up.
C16_EveryUnitNotifies ==
    \A r \in Runs :
        pc[r] = "returned" =>
            IF script = "chief_architect"
            THEN Len(notes[r]) >= TakenUp(r)
            ELSE notes[r] # <<>>

\* the settings the roles are to have: the hosting token and the webhook URL,
\* and for the core engineers and QA/perf the model key and the pull request
Required(s) ==
    {"GH_PAT", "SLACK_WEBHOOK"} \cup
    (IF s \in {"core_engineers", "qa_perf"} THEN {"OPENAI_API_KEY", "PR_NUMBER"} ELSE {})

\* C17: in every role script a run that lacks a required setting exits at
\* start-up with an error message, before any remote operation.
C17_MissingConfigExitsAtStartup ==
    \A r \in Runs :
        (pc[r] \notin {"idle", "done"} /\ \E v \in Required(script) : ~env[v]) =>
            /\ pc[r] = "exit1"
            /\ err[r] # ""
            /\ ops[r] = {}

\* run r took a step
Stepped(r) == pc'[r] # pc[r] \/ pathIdx'[r] # pathIdx[r] \/ idx' # idx

\* after item i of n the loop at `again` goes on with item i + 1, or with the
\* step `after` when i was the last
GoesOn(r, i, n, iAfter, again, after) ==
    \/ i < n /\ pc'[r] = again /\ iAfter = i + 1
    \/ i = n /\ pc'[r] = after

\* C18: a failure of one item's operation never stops the units after it.
\* Whatever its outcome, a step of the orchestrator's file loop goes on with
\* the creation of the file, the next file or the pull-request step, a step of
\* its card move goes on inside the move or with the issue comment, and the
\* comment with the Slack ping; a task of the core engineers is followed by
\* the next task or the closing comment; a review of the chief architect is
\* followed by its notification, the next pull request or the end of the loop.
C18_Step ==
    \A r \in Runs :
        Stepped(r) =>
            /\ pc[r] = "check_file" =>
                  \/ pc'[r] = "create_file" /\ pathIdx'[r] = pathIdx[r]
                  \/ GoesOn(r, pathIdx[r], Len(files_to_add), pathIdx'[r],
                            "check_file", "get_pulls")
            /\ pc[r] = "create_file" =>
                  GoesOn(r, pathIdx[r], Len(files_to_add), pathIdx'[r],
                         "check_file", "get_pulls")
            /\ InMove(r) => pc'[r] \in {"add_item", "move", "alt_move", "comment"}
            /\ pc[r] = "comment" => pc'[r] = "slack"
            /\ pc[r] = "ce_task" =>
                  GoesOn(r, idx, Len(tasks), idx', "ce_task", "ce_comment")
            /\ pc[r] = "ca_review" =>
                  \/ pc'[r] = "ca_notify" /\ idx' = idx
                  \/ GoesOn(r, idx, Len(prs_to_review), idx', "ca_review", "returned")
            /\ pc[r] = "ca_notify" =>
                  GoesOn(r, idx, Len(prs_to_review), idx', "ca_review", "returned")

C18_FailureDoesNotStopLaterUnits == [][C18_Step]_vars

\* the update of the core engineers' first task failed (the update was
\* followed by the create of the fallback) and the run is at its second task
C18_Witness ==
    \E r \in Runs :
        /\ pc[r] = "ce_task"
        /\ idx = 2
        /\ Len(tasks) = 2
        /\ writes[r] = <<Write("update_file", tasks[1], ShaOf(head[tasks[1]])),
                         Write("create_file", tasks[1], None)>>

\* the writes run r requested in this step
NewWrites(r) == SubSeq(writes'[r], Len(writes[r]) + 1, Len(writes'[r]))

\* C19: update_file requests a create only for a file that is absent on the
\* pull request's branch; for a file that exists it requests an update that
\* carries the file's current sha, and never a create, whatever becomes of the
\* update.
C19_Step ==
    \A r \in Runs :
        \A k \in 1..Len(NewWrites(r)) :
            LET w == NewWrites(r)[k]
            IN  w.op \in {"create_file", "update_file"} =>
                    IF head[w.path] = Absent
                    THEN w.op = "create_file"
                    ELSE w.op = "update_file" /\ w.sha = ShaOf(head[w.path])

C19_CreateOnlyWhenAbsent == [][C19_Step]_vars

----------------------------------------------------------------------------
(* Interleaved orchestrator runs.  Nothing in orchestrator.py keeps two runs  *)
(* of the workflow apart; here all runs are inside move_issue_to_dev for the *)
(* same issue and project at once, and their requests reach the host in any *)
(* order.  Each run starts as a run of Spec arrives at line 217.             *)

InterleavedInit ==
    /\ script = "orchestrator"
    /\ env = [v \in EnvVars |-> TRUE]
    /\ RoleInit
    /\ pc = [r \in Runs |-> "q_issue"]
    /\ viewer_nodes = [r \in Runs |-> <<>>]
    /\ repo_nodes = [r \in Runs |-> <<>>]
    /\ status_options = [r \in Runs |-> <<>>]
    /\ dev_option = [r \in Runs |-> NoOption]
    /\ project_id = [r \in Runs |-> None]
    /\ status_field_id = [r \in Runs |-> None]
    /\ dev_option_id = [r \in Runs |-> None]
    /\ err = [r \in Runs |-> ""]
    /\ \E p \in { q \in ProjectIds : NodeMatches(Board(q)) } :
         /\ PROJECT_ID = [r \in Runs |-> p]
         /\ STATUS_FIELD_ID = [r \in Runs |-> FieldIdOf(p)]
         /\ DEV_OPTION_ID = [r \in Runs |-> OptionId(p, 1, "global")]
         \* the board is empty, or holds the issue already
         /\ items \in {{}, {[project |-> p, content |-> IssueNodeId, id |-> "PVTI_1"]}}
    /\ pathIdx = [r \in Runs |-> 0]
    /\ pr = [r \in Runs |-> 1]
    /\ item_id = [r \in Runs |-> IssueNodeId]
    /\ content_id = [r \in Runs |-> None]
    /\ add_item = [r \in Runs |-> "not_called"]
    /\ confirmation = [r \in Runs |-> NoRaw]
    /\ moved = [r \in Runs |-> "not_called"]
    /\ sent = [r \in Runs |-> <<Req("query_projects"), Req("query_field")>>]
    /\ ops = [r \in Runs |-> {"repo", "branch", "file", "pull", "issue"}]
    /\ notes = [r \in Runs |-> <<>>]
    /\ branch = TRUE
    /\ files = [i \in Paths |-> "empty"]
    /\ pulls = {1}
    /\ card = [i \in {} |-> None]
    /\ ensured = <<>>

InterleavedNext ==
    \E r \in Runs :
        \/ QueryIssueId(r)
        \/ AddItem(r)
        \/ MoveCard(r)
        \/ AltMoveCard(r)

InterleavedSpec == InterleavedInit /\ [][InterleavedNext]_vars

C21_StatusOnlyAfterSuccessfulAdd ==
    \A r \in Runs :
        \A i \in StatusReqs(r) :
            /\ \E j \in 1..(i - 1) : sent[r][j].op = "add_item"
            /\ pc[r] \in {"move", "alt_move", "comment"} =>
                   /\ content_id[r] # None
                   /\ add_item[r] \notin {"not_called", "failed"}

\* C22: the orchestrator is idempotent on repository artifacts.  A run goes to
\* create a file only when the file is absent and to open a pull request only
\* when none is open; a branch, a file or an open pull request that exists is
\* left as it is, the run goes on with the pull request that exists, and there
\* is never more than one open pull request.
C22_Step ==
    /\ branch => branch'
    /\ \A i \in Paths : files[i] # "absent" => files'[i] = files[i]
    /\ pulls # {} => pulls' = pulls
    /\ Cardinality(pulls') <= 1
    /\ \A r \in Runs :
        /\ (pc[r] # "create_file" /\ pc'[r] = "create_file") =>
               files[pathIdx[r]] = "absent"
        /\ (pc[r] # "create_pull" /\ pc'[r] = "create_pull") => pulls = {}
        /\ (pc[r] = "get_pulls" /\ pc'[r] = "get_issue") => pr'[r] \in pulls

C22_IdempotentOnArtifacts == [][C22_Step]_vars

\* a second run found the branch, both files and the pull request of the first
\* and goes on with that pull request
C22_Witness ==
    /\ pc[1] = "done"
    /\ pc[2] = "get_issue"
    /\ branch
    /\ \A i \in Paths : files[i] = "empty"
    /\ pulls = {1}
    /\ pr[2] = 1

\* the requests of the card move that run r has sent
MoveReqs(r) ==
    { i \in 1..Len(sent[r]) :
        sent[r][i].op \in {"query_issue_id", "add_item", "set_status", "set_status_alt"} }

\* the operations of main that come after the branch step
AfterBranch == {"file", "pull", "issue", "comment", "slack"}

\* run r has the branch and a pull request
HasBranchAndPull(r) == branch /\ pr[r] \in pulls

\* C23: the card move, the issue comment and the Slack ping of an orchestrator
\* run are attempted only with the branch at hand and a pull request found or
\* created, and in this order; a branch error ends the run before any file,
\* pull-request, card, comment or Slack operation.
C23_Step ==
    \A r \in Runs :
        /\ (pc[r] = "main" /\ pc'[r] # "main") =>
               \/ pc'[r] = "check_file" /\ branch'
               \/ /\ pc'[r] = "returned"
                  /\ ops'[r] \cap AfterBranch = {}
                  /\ MoveReqs(r)' = {}
        /\ pc[r] = "returned" => pc'[r] \in {"returned", "done"} /\ ops'[r] \subseteq ops[r]
        /\ (MoveReqs(r)' \ MoveReqs(r) # {}) =>
               HasBranchAndPull(r) /\ ops[r] \cap {"comment", "slack"} = {}
        /\ ("comment" \in ops'[r] \ ops[r]) =>
               HasBranchAndPull(r) /\ "slack" \notin ops[r]
        /\ ("slack" \in ops'[r] \ ops[r]) => HasBranchAndPull(r)

C23_MoveCommentPingGuardedAndOrdered == [][C23_Step]_vars

\* a run that sent the status mutation, commented and pinged Slack
C23_Witness ==
    \E r \in Runs :
        /\ pc[r] = "returned"
        /\ StatusReqs(r) # {}
        /\ {"comment", "slack"} \subseteq ops[r]
        /\ HasBranchAndPull(r)

\* the pull requests a sequence lists
Listed(seq) == { seq[i] : i \in 1..Len(seq) }

\* C24: without PR_NUMBER get_pr returns exactly the open pull requests that
\* are still to be reviewed: those without a review and those whose reviews
\* request changes are returned, those with an approving review are not.
C24_PendingAreUnapproved ==
    \A r \in Runs :
        (script = "chief_architect" /\ ~env["PR_NUMBER"] /\ pc[r] = "ca_review" /\ idx = 1) =>
            \A n \in OpenPulls :
                n \in Listed(prs_to_review) <=> "APPROVED" \notin reviews[n]

\* the file has content on the branch that is more than whitespace
HasCode(path) == head[path] # Absent /\ ~IsBlank(head[path])

\* C25: the core engineers write generated code only to files whose content on
\* the pull request's branch is empty or whitespace: for a file that has other
\* content no write is requested and the content stays, whatever the read and
\* the model calls come to.
C25_Step ==
    script = "core_engineers" =>
        \A path \in DOMAIN head :
            HasCode(path) =>
                /\ head'[path] = head[path]
                /\ \A r \in Runs :
                       \A k \in 1..Len(NewWrites(r)) : NewWrites(r)[k].path # path

C25_OnlyBlankFilesWritten == [][C25_Step]_vars

\* C26: a core-engineers or QA/perf run whose main has returned attempted
\* exactly one Slack notification: the completion message if the pull request
\* was processed, the warning if not, and never both.
C26_ExactlyOneNotification ==
    \A r \in Runs :
        (script \in {"core_engineers", "qa_perf"} /\ pc[r] = "returned") =>
            /\ Len(notes[r]) = 1
            /\ notes[r][1].kind = IF success = "True" THEN "done" ELSE "warning"

\* C27: across successive chief architect runs without PR_NUMBER a pull request
\* that carries the review comment of an earlier run is not taken up again:
\* every open pull request receives at most one review comment.
C27_AtMostOneReviewComment ==
    (script = "chief_architect" /\ ~env["PR_NUMBER"]) =>
        \A n \in OpenPulls : review_comments[n] <= 1

====
